---- MODULE Spec2Model ----
(***************************************************************************)
(* Dotz.fit: the GameBoard play session (client/src/components, GameBoard  *)
(* part of PuzzleCreator.tsx) together with the RPC handlers it calls, the *)
(* judgement of one region taken alone, the painting of regions in the     *)
(* PuzzleCreator, and the RPC handlers under requests of any caller.       *)
(*                                                                         *)
(* A cell key of the board state is a pair <<index, suffix>>: <<i, "">>    *)
(* is the string `cell-i` of grid cell i, <<i, "right">> is the string     *)
(* `cell-i-right` and <<i, "below">> the string `cell-i-below`, the keys   *)
(* handleDominoMove builds for the second half of a domino.                *)
(***************************************************************************)
EXTENDS Integers, Sequences, FiniteSets, TLC

VARIABLES
    puzzle,          \* GameBoardProps.puzzle, parsed (boardData, dominoesData)
    user,            \* GameBoardProps.user: a user id, or NoUser for a guest
    gameState,       \* useState<GameState>
    draggedDomino,   \* useState<string | null>
    showSuccess,     \* useState(false)
    clock,           \* last value read from Date.now(), relative to startTime
    moves,           \* number of updateGameState calls so far
    lastMove,        \* history: the last handler call and, for a place that is
                     \* followed at once by its remove, the board before it
    completions,     \* history: number of transitions into isComplete
    currentAttempt,  \* useState<PuzzleAttempt | null>: the attempt id, or Null
    attemptCall,     \* the createPuzzleAttempt call of the mount effect
    saveCalls,       \* updatePuzzleAttempt calls in flight
    achievementCalls,\* createAchievement calls in flight
    usersTable,      \* ids of the rows of usersTable
    puzzlesTable,    \* rows of puzzlesTable
    puzzleAttemptsTable, \* rows of puzzleAttemptsTable, by serial id
    achievementsTable,   \* rows of achievementsTable, by serial id
    puzzlesSerial,   \* last value of the serial of puzzlesTable.id
    rpcCalls,        \* createPuzzle, updatePuzzle, deletePuzzle and
                     \* getCookieTrifectaStatus calls in flight
    reply,           \* what the handler served last gave its caller
    requests,        \* number of calls made by the callers of the RPC interface
    evaluation,      \* one region judged alone: condition, values, outcome
    creatorState,    \* PuzzleCreator: useState<CreatorState>
    painted,         \* history: the colours each cell was painted with, in order
    clicks           \* number of handleCellClick calls so far

vars == <<puzzle, user, gameState, draggedDomino, showSuccess, clock, moves,
          lastMove, completions, currentAttempt, attemptCall, saveCalls,
          achievementCalls, usersTable, puzzlesTable, puzzleAttemptsTable,
          achievementsTable, puzzlesSerial, rpcCalls, reply, requests, evaluation,
          creatorState, painted, clicks>>

clientVars == <<puzzle, user, gameState, draggedDomino, showSuccess, clock,
                moves, lastMove, completions>>
tableVars == <<usersTable, puzzlesTable, puzzleAttemptsTable, achievementsTable>>
\* what the play session and its three calls never touch
puzzleRpcVars == <<puzzlesSerial, rpcCalls, requests>>
evaluatorVars == <<evaluation>>
creatorVars == <<creatorState, painted, clicks>>

----------------------------------------------------------------------------
(* Bounds of the model *)

\* largest number of handler calls (place, remove, rotate) in the session of
\* a signed-in user
MaxMoves == 3
\* largest number of handler calls in the session of a guest, which makes no
\* RPC call
MaxGuestMoves == 4
\* a handler is called only while fewer than this many RPC calls are in flight
MaxInFlight == 2

\* largest number of calls made through the RPC interface
MaxRequests == 3
\* largest number of cell clicks in the puzzle creator
MaxClicks == 3
\* largest target value of a condition judged alone
MaxTarget == 3
\* largest number of covered cells of a region judged alone
MaxValues == 3
\* largest value of a covered cell of a region judged alone
MaxPip == 2

(* Program constants *)

\* grid_width: z.number().int().min(3).max(10)
MinGridSize == 3
MaxGridSize == 10

\* completionSeconds <= 60
TrifectaThreshold == 60
\* Math.floor(completionTime / 1000)
MsPerSecond == 1000
\* gameState.completionTime <= 60000
BadgeThresholdMs == 60000

NoUser == 0
NoDomino == ""
\* completionTime?: number  -- the field is absent
Undefined == -1
\* null (JSON, SQL)
Null == -2

----------------------------------------------------------------------------
(* Puzzle definitions a session can be opened on.  board_data is the map   *)
(* region id -> cells (in insertion order), conditions_data the list of    *)
(* entries region id -> {type, value} in key order, dominoes_data the list *)
(* of value pairs.                                                         *)

\* spec scenario: 3x3, one region {0,1} sum 7, one domino (3,4)
PuzzleScenario ==
    [ id |-> 1, difficulty_level |-> "Easy", grid_width |-> 3, grid_height |-> 3,
      regions |-> [r \in {"red"} |-> <<0, 1>>],
      conditions |-> << [region |-> "red", type |-> "sum", value |-> 7] >>,
      dominoes |-> << <<3, 4>> >> ]

\* two dominoes, two regions
PuzzleTwo ==
    [ id |-> 2, difficulty_level |-> "Medium", grid_width |-> 3, grid_height |-> 3,
      regions |-> [r \in {"red", "blue"} |->
                      IF r = "red" THEN <<0, 1>> ELSE <<2>>],
      conditions |-> << [region |-> "red", type |-> "sum", value |-> 6],
                        [region |-> "blue", type |-> "less_than", value |-> 4] >>,
      dominoes |-> << <<3, 4>>, <<3, 5>> >> ]

\* one single-cell region, one domino
PuzzleSingle ==
    [ id |-> 3, difficulty_level |-> "Hard", grid_width |-> 3, grid_height |-> 3,
      regions |-> [r \in {"green"} |-> <<4>>],
      conditions |-> << [region |-> "green", type |-> "difference", value |-> 1] >>,
      dominoes |-> << <<5, 6>> >> ]

\* one two-cell region, one double domino
PuzzleDouble ==
    [ id |-> 4, difficulty_level |-> "Medium", grid_width |-> 3, grid_height |-> 3,
      regions |-> [r \in {"blue"} |-> <<7, 8>>],
      conditions |-> << [region |-> "blue", type |-> "equality", value |-> 0] >>,
      dominoes |-> << <<2, 2>> >> ]

Puzzles == {PuzzleScenario, PuzzleTwo, PuzzleSingle, PuzzleDouble}

UserIds == {1}

\* a row of puzzlesTable: the definition p, as createPuzzle stores it
PuzzleRow(p, title, creator_id) ==
    [ id |-> p.id, title |-> title, creator_id |-> creator_id,
      difficulty_level |-> p.difficulty_level,
      grid_width |-> p.grid_width, grid_height |-> p.grid_height,
      board_data |-> p.regions, dominoes_data |-> p.dominoes,
      conditions_data |-> p.conditions, is_published |-> TRUE ]

\* what a handler gives its caller: the error it throws or "ok", the
\* boolean of deletePuzzle, the levels getCookieTrifectaStatus reports true
Reply(op, status) == [op |-> op, status |-> status, levels |-> {}]
NoReply == Reply("none", "none")

\* the sessions explored: a guest on any puzzle, a signed-in user on the
\* puzzles with one domino
Sessions ==
    { <<p, u>> \in Puzzles \X ({NoUser} \cup UserIds) :
          u = NoUser \/ Len(p.dominoes) = 1 }

----------------------------------------------------------------------------
(* Helpers *)

Abs(n) == IF n < 0 THEN -n ELSE n

RECURSIVE SeqSum(_)
SeqSum(s) == IF s = <<>> THEN 0 ELSE Head(s) + SeqSum(Tail(s))

RECURSIVE SeqProduct(_)
SeqProduct(s) == IF s = <<>> THEN 1 ELSE Head(s) * SeqProduct(Tail(s))

\* `cell-${index}`
CellKey(i) == <<i, "">>

\* `${targetCellId}-${rotation === 'horizontal' ? 'right' : 'below'}`
SecondKey(i, rotation) == <<i, IF rotation = "horizontal" THEN "right" ELSE "below">>

\* Array.from({ length: grid_width * grid_height }): the cells rendered as drop targets
GridCells == 0 .. (puzzle.grid_width * puzzle.grid_height - 1)

\* `domino-${index}`
DominoIds == <<"domino-0", "domino-1", "domino-2">>

\* dominoesData: every domino starts horizontal and not placed
dominoesData(p) ==
    [i \in 1 .. Len(p.dominoes) |->
        [id |-> DominoIds[i], values |-> p.dominoes[i],
         rotation |-> "horizontal", isPlaced |-> FALSE, position |-> <<>>]]

\* gameState.dominoes.find(d => d.id === dominoId)
FindDomino(dominoes, dominoId) ==
    CHOOSE i \in 1 .. Len(dominoes) : dominoes[i].id = dominoId

----------------------------------------------------------------------------
(* checkWinConditions *)

\* the values of the region's cells that are covered, in cell order
regionValues(cells, boardState) ==
    LET covered == SelectSeq(cells, LAMBDA c : CellKey(c) \in DOMAIN boardState)
    IN  [i \in 1 .. Len(covered) |-> boardState[CellKey(covered[i])].value]

\* the switch with equality comparing the first two values only
conditionMet_firstPair(condition, values) ==
    CASE condition.type = "sum" -> SeqSum(values) = condition.value
      [] condition.type = "product" -> SeqProduct(values) = condition.value
      [] condition.type = "difference" ->
            Len(values) = 2 /\ Abs(values[1] - values[2]) = condition.value
      [] condition.type = "equality" ->
            Len(values) >= 2 => values[2] = values[1]
      [] condition.type = "greater_than" ->
            \A i \in 1 .. Len(values) : values[i] > condition.value
      [] condition.type = "less_than" ->
            \A i \in 1 .. Len(values) : values[i] < condition.value
      [] OTHER -> FALSE

\* the switch with sum and product reduced without their last value
conditionMet_dropLast(condition, values) ==
    CASE condition.type = "sum" ->
            SeqSum(SubSeq(values, 1, Len(values) - 1)) = condition.value
      [] condition.type = "product" ->
            SeqProduct(SubSeq(values, 1, Len(values) - 1)) = condition.value
      [] condition.type = "difference" ->
            Len(values) = 2 /\ Abs(values[1] - values[2]) = condition.value
      [] condition.type = "equality" ->
            \A i \in 1 .. Len(values) : values[i] = values[1]
      [] condition.type = "greater_than" ->
            \A i \in 1 .. Len(values) : values[i] > condition.value
      [] condition.type = "less_than" ->
            \A i \in 1 .. Len(values) : values[i] < condition.value
      [] OTHER -> FALSE

\* the switch over condition.type
conditionMet(condition, values) ==
    CASE condition.type = "sum" -> SeqSum(values) = condition.value
      [] condition.type = "product" -> SeqProduct(values) = condition.value
      [] condition.type = "difference" ->
            Len(values) = 2 /\ Abs(values[1] - values[2]) = condition.value
      [] condition.type = "equality" ->
            \A i \in 1 .. Len(values) : values[i] = values[1]
      [] condition.type = "greater_than" ->
            \A i \in 1 .. Len(values) : values[i] > condition.value
      [] condition.type = "less_than" ->
            \A i \in 1 .. Len(values) : values[i] < condition.value
      [] OTHER -> FALSE

\* one turn of the loop over the conditions, from the values on: "skipped"
\* is the return on no value, "violated" the push onto the violated list
regionOutcome(condition, values) ==
    IF values = <<>> THEN "skipped"
    ELSE IF ~ conditionMet(condition, values) THEN "violated"
    ELSE "met"

\* the ids of the violated regions, in the order of the conditions
checkWinConditions(p, boardState) ==
    LET judged(c) ==
            /\ c.region \in DOMAIN p.regions
            /\ regionOutcome(c, regionValues(p.regions[c.region], boardState))
                   = "violated"
        bad == SelectSeq(p.conditions, judged)
    IN  [i \in 1 .. Len(bad) |-> bad[i].region]

----------------------------------------------------------------------------
(* One region judged alone: the inputs drawn for it *)

\* z.enum of conditionTypeSchema
ConditionTypes ==
    {"sum", "product", "difference", "equality", "greater_than", "less_than"}

\* the conditions drawn: every type with every target up to MaxTarget
EvaluatedConditions ==
    {[region |-> "red", type |-> t, value |-> v] :
        t \in ConditionTypes, v \in 0 .. MaxTarget}

\* the value sequences drawn: up to MaxValues covered cells, values up to MaxPip
ValueSeqs == UNION {[1 .. n -> 0 .. MaxPip] : n \in 0 .. MaxValues}

\* the same values in every order of the region's cells
Reorderings(values) ==
    LET n == Len(values)
        orders == {f \in [1 .. n -> 1 .. n] : \A i, j \in 1 .. n : f[i] = f[j] => i = j}
    IN  {[i \in 1 .. n |-> values[f[i]]] : f \in orders}

NoEvaluation ==
    [ condition |-> [region |-> "red", type |-> "sum", value |-> 0],
      values |-> <<>>, reordered |-> <<>>,
      outcome |-> "none", outcomeReordered |-> "none" ]

----------------------------------------------------------------------------
(* Achievement derivation and the inputs of the RPC calls *)

\* Math.floor(completionTime / 1000)
completionSeconds(completionTime) == completionTime \div MsPerSecond

\* the threshold second itself excluded
isCookieTrifecta_strict(seconds) == seconds < TrifectaThreshold

\* const isCookieTrifecta = completionSeconds <= 60
isCookieTrifecta(seconds) == seconds <= TrifectaThreshold

\* JSON.stringify(state): absent (undefined) fields are not written
JSONstringify(state) ==
    [ dominoes |-> [i \in 1 .. Len(state.dominoes) |->
                       LET d == state.dominoes[i]
                       IN  [id |-> d.id, values |-> d.values, rotation |-> d.rotation,
                            isPlaced |-> d.isPlaced,
                            position |-> IF d.position = <<>> THEN "" ELSE "{x:0,y:0}"]],
      boardState |-> state.boardState,
      isComplete |-> state.isComplete,
      violatedConditions |-> state.violatedConditions,
      startTime |-> state.startTime,
      completionTime |-> IF state.completionTime = Undefined THEN "" ELSE "number",
      completionTimeValue |-> IF state.completionTime = Undefined THEN 0
                              ELSE state.completionTime ]

\* the input of trpc.createAchievement.mutate in handlePuzzleComplete
achievementInput(completedState, n) ==
    [ call |-> n,
      user_id |-> user,
      puzzle_id |-> puzzle.id,
      difficulty_level |-> puzzle.difficulty_level,
      completion_time |-> completionSeconds(completedState.completionTime),
      is_cookie_trifecta |->
          isCookieTrifecta(completionSeconds(completedState.completionTime)) ]

\* handlePuzzleComplete: the calls it adds to those in flight
handlePuzzleComplete(completedState, n) ==
    IF user = NoUser \/ completedState.completionTime = Undefined
                     \/ completedState.completionTime = 0
    THEN {}
    ELSE {achievementInput(completedState, n)}

\* the input of trpc.updatePuzzleAttempt.mutate in saveAttempt; an optional
\* field is a sequence: <<>> when not provided, <<v>> when provided
saveInput(finalState, isComplete, now) ==
    [ id |-> currentAttempt,
      attempt_data |-> << JSONstringify(finalState) >>,
      is_completed |-> << isComplete >>,
      completion_time |->
          << IF finalState.completionTime # Undefined /\ finalState.completionTime # 0
             THEN completionSeconds(finalState.completionTime) ELSE Null >>,
      completed_at |-> << IF isComplete THEN now ELSE Null >> ]

\* the success alert shows the "Cookie Trifecta!" badge
showBadge ==
    /\ showSuccess
    /\ gameState.completionTime # Undefined /\ gameState.completionTime # 0
    /\ gameState.completionTime <= BadgeThresholdMs

\* the values Date.now() - startTime takes at a completion: less than one
\* second, the first and the last millisecond of the threshold second, and
\* the first millisecond after it
ClockReadings ==
    { MsPerSecond - 1,
      TrifectaThreshold * MsPerSecond,
      TrifectaThreshold * MsPerSecond + (MsPerSecond - 1),
      (TrifectaThreshold + 1) * MsPerSecond }

----------------------------------------------------------------------------
(* The mount effect of GameBoard *)

newGameState(p) ==
    [ dominoes |-> dominoesData(p),
      boardState |-> <<>>,
      isComplete |-> FALSE,
      violatedConditions |-> <<>>,
      startTime |-> 0,
      completionTime |-> Undefined ]

NoMove == [op |-> "none", dominoId |-> NoDomino, cell |-> -1,
           before |-> <<>>, undone |-> FALSE]

\* useState<CreatorState>({...}), with isPublishing, publishResult and
\* showConditionDialog; regions is the list of the entries of the regions
\* object, in key order
newCreatorState ==
    [ title |-> "", difficulty |-> "Easy", gridWidth |-> 4, gridHeight |-> 4,
      regions |-> <<>>, dominoes |-> <<>>, selectedTool |-> "paint",
      selectedColor |-> "red", selectedRegion |-> "",
      isPublishing |-> FALSE, publishResult |-> "none",
      showConditionDialog |-> FALSE ]

Init ==
    /\ \E s \in Sessions : puzzle = s[1] /\ user = s[2]
    /\ gameState = newGameState(puzzle)
    /\ draggedDomino = NoDomino
    /\ showSuccess = FALSE
    /\ clock = 0
    /\ moves = 0
    /\ lastMove = NoMove
    /\ completions = 0
    /\ currentAttempt = Null
    /\ attemptCall = IF user # NoUser
                     THEN [status |-> "sent",
                           input |-> [user_id |-> user, puzzle_id |-> puzzle.id,
                                      attempt_data |-> JSONstringify(newGameState(puzzle))],
                           result |-> Null]
                     ELSE [status |-> "none",
                           input |-> [user_id |-> NoUser, puzzle_id |-> puzzle.id,
                                      attempt_data |-> JSONstringify(newGameState(puzzle))],
                           result |-> Null]
    /\ saveCalls = {}
    /\ achievementCalls = {}
    /\ usersTable = UserIds
    /\ puzzlesTable = {PuzzleRow(p, "puzzle", Null) : p \in Puzzles}
    /\ puzzleAttemptsTable = <<>>
    /\ achievementsTable = <<>>
    /\ puzzlesSerial = Cardinality(Puzzles)
    /\ rpcCalls = {}
    /\ reply = NoReply
    /\ requests = 0
    /\ evaluation = NoEvaluation
    /\ creatorState = newCreatorState
    /\ painted = <<>>
    /\ clicks = 0

\* the handler calls explored in the session
MovesBound == IF user = NoUser THEN MaxGuestMoves ELSE MaxMoves

----------------------------------------------------------------------------
(* updateGameState: merge the new fields, judge the regions, detect the    *)
(* completion, fire the achievement and the save.                          *)

updateGameState(newDominoes, newBoardState) ==
    LET prevState == gameState
        updatedState == [prevState EXCEPT !.dominoes = newDominoes,
                                          !.boardState = newBoardState]
        violatedConditions == checkWinConditions(puzzle, updatedState.boardState)
        allDominoesPlaced ==
            \A i \in 1 .. Len(updatedState.dominoes) : updatedState.dominoes[i].isPlaced
        isComplete == allDominoesPlaced /\ violatedConditions = <<>>
        entering == isComplete /\ ~ prevState.isComplete
    IN  /\ moves < MovesBound
        /\ Cardinality(saveCalls) + Cardinality(achievementCalls) < MaxInFlight
        /\ moves' = moves + 1
        /\ \E now \in (IF entering THEN {r \in ClockReadings : r >= clock} ELSE {clock}) :
              LET finalState ==
                      [updatedState EXCEPT
                          !.violatedConditions = violatedConditions,
                          !.isComplete = isComplete,
                          !.completionTime = IF entering THEN now - prevState.startTime
                                             ELSE prevState.completionTime]
              IN  /\ clock' = now
                  /\ gameState' = finalState
                  /\ showSuccess' = (showSuccess \/ entering)
                  /\ completions' = IF entering THEN completions + 1 ELSE completions
                  /\ achievementCalls' =
                        IF entering
                        THEN achievementCalls
                                \cup handlePuzzleComplete(finalState, completions + 1)
                        ELSE achievementCalls
                  /\ saveCalls' =
                        IF user # NoUser /\ currentAttempt # Null
                        THEN saveCalls \cup {saveInput(finalState, isComplete, now)}
                        ELSE saveCalls
        /\ UNCHANGED <<puzzle, user, currentAttempt, attemptCall, tableVars, reply,
                       puzzleRpcVars, evaluatorVars, creatorVars>>

----------------------------------------------------------------------------
(* handleDominoMove and handleDominoRotate, and the events that call them  *)

\* handleDominoMove(dominoId, targetCellId) with a target cell: place
handleDominoMovePlace(dominoId, targetCellId) ==
    LET i == FindDomino(gameState.dominoes, dominoId)
        domino == gameState.dominoes[i]
        first == CellKey(targetCellId)
        second == SecondKey(targetCellId, domino.rotation)
        keys == DOMAIN gameState.boardState \cup {first, second}
    IN  /\ updateGameState(
              [gameState.dominoes EXCEPT ![i].isPlaced = TRUE, ![i].position = <<0, 0>>],
              [k \in keys |->
                  IF k = second THEN [dominoId |-> dominoId, value |-> domino.values[2]]
                  ELSE IF k = first THEN [dominoId |-> dominoId, value |-> domino.values[1]]
                  ELSE gameState.boardState[k]])
        /\ lastMove' = [op |-> "place", dominoId |-> dominoId, cell |-> targetCellId,
                        before |-> gameState.boardState, undone |-> FALSE]

\* handleDominoMove(dominoId, null): remove
handleDominoMoveRemove(dominoId) ==
    LET i == FindDomino(gameState.dominoes, dominoId)
    IN  /\ updateGameState(
              [gameState.dominoes EXCEPT ![i].isPlaced = FALSE, ![i].position = <<>>],
              gameState.boardState)
        /\ lastMove' = IF lastMove.op = "place" /\ lastMove.dominoId = dominoId
                       THEN [lastMove EXCEPT !.op = "remove", !.undone = TRUE]
                       ELSE [NoMove EXCEPT !.op = "remove", !.dominoId = dominoId]

handleDominoRotate(dominoId) ==
    LET i == FindDomino(gameState.dominoes, dominoId)
    IN  /\ updateGameState(
              [gameState.dominoes EXCEPT
                  ![i].rotation = IF @ = "horizontal" THEN "vertical" ELSE "horizontal"],
              gameState.boardState)
        /\ lastMove' = [NoMove EXCEPT !.op = "rotate", !.dominoId = dominoId]

\* the dominoes listed under "Available Dominoes" / "Placed Dominoes"
Available == {i \in 1 .. Len(gameState.dominoes) : ~ gameState.dominoes[i].isPlaced}
Placed == {i \in 1 .. Len(gameState.dominoes) : gameState.dominoes[i].isPlaced}

\* onDragStart of an available domino
DragStart ==
    \E i \in Available :
        /\ moves < MovesBound
        /\ draggedDomino # gameState.dominoes[i].id
        /\ draggedDomino' = gameState.dominoes[i].id
        /\ UNCHANGED <<puzzle, user, gameState, showSuccess, clock, moves, lastMove,
                       completions, currentAttempt, attemptCall, saveCalls,
                       achievementCalls, tableVars, reply, puzzleRpcVars,
                       evaluatorVars, creatorVars>>

\* onDrop on a grid cell
Drop ==
    \E cell \in GridCells :
        /\ draggedDomino # NoDomino
        /\ handleDominoMovePlace(draggedDomino, cell)
        /\ draggedDomino' = NoDomino

\* onClick of a placed domino
ClickPlaced ==
    \E i \in Placed :
        /\ handleDominoMoveRemove(gameState.dominoes[i].id)
        /\ UNCHANGED draggedDomino

\* onClick of an available domino
ClickAvailable ==
    \E i \in Available :
        /\ handleDominoRotate(gameState.dominoes[i].id)
        /\ UNCHANGED draggedDomino

----------------------------------------------------------------------------
(* The RPC handlers *)

\* createPuzzleAttempt: insert the row, return it
createPuzzleAttempt ==
    /\ attemptCall.status = "sent"
    /\ LET input == attemptCall.input
           id == Len(puzzleAttemptsTable) + 1
       IN  /\ puzzleAttemptsTable' = Append(puzzleAttemptsTable,
                  [ id |-> id,
                    user_id |-> IF input.user_id = NoUser THEN Null ELSE input.user_id,
                    puzzle_id |-> input.puzzle_id,
                    attempt_data |-> input.attempt_data,
                    is_completed |-> FALSE,
                    completion_time |-> Null,
                    started_at |-> 0,
                    completed_at |-> Null ])
           /\ attemptCall' = [attemptCall EXCEPT !.status = "returned", !.result = id]
    /\ reply' = Reply("createPuzzleAttempt", "ok")
    /\ UNCHANGED <<clientVars, currentAttempt, saveCalls, achievementCalls,
                   usersTable, puzzlesTable, achievementsTable, puzzleRpcVars,
                   evaluatorVars, creatorVars>>

\* setCurrentAttempt(attempt) when the call returns
setCurrentAttempt ==
    /\ attemptCall.status = "returned"
    /\ currentAttempt' = attemptCall.result
    /\ attemptCall' = [attemptCall EXCEPT !.status = "done"]
    /\ UNCHANGED <<clientVars, saveCalls, achievementCalls, tableVars, reply,
                   puzzleRpcVars, evaluatorVars, creatorVars>>

\* updatePuzzleAttemptInputSchema
validUpdatePuzzleAttemptInput(input) ==
    \A i \in 1 .. Len(input.completion_time) :
        input.completion_time[i] = Null \/ input.completion_time[i] > 0

\* the row after a .set of all four fields, one not provided written as null
updatedAttempt_allFields(row, input) ==
    [ row EXCEPT
        !.attempt_data = IF input.attempt_data # <<>> THEN input.attempt_data[1] ELSE @,
        !.is_completed = IF input.is_completed # <<>> THEN input.is_completed[1] ELSE @,
        !.completion_time =
            IF input.completion_time # <<>> THEN input.completion_time[1] ELSE Null,
        !.completed_at = IF input.completed_at # <<>> THEN input.completed_at[1] ELSE Null ]

\* the row after .set(updateValues): only the provided fields change
updatedAttempt(row, input) ==
    [ row EXCEPT
        !.attempt_data = IF input.attempt_data # <<>> THEN input.attempt_data[1] ELSE @,
        !.is_completed = IF input.is_completed # <<>> THEN input.is_completed[1] ELSE @,
        !.completion_time =
            IF input.completion_time # <<>> THEN input.completion_time[1] ELSE @,
        !.completed_at = IF input.completed_at # <<>> THEN input.completed_at[1] ELSE @ ]

\* const updateValues: any = {}: no field of the input is provided
noUpdateValues(input) ==
    /\ input.attempt_data = <<>>
    /\ input.is_completed = <<>>
    /\ input.completion_time = <<>>
    /\ input.completed_at = <<>>

\* the outcome of updatePuzzleAttempt: the schema rejects the input, .set({})
\* throws, no row has the id, or the row is updated and returned
updatePuzzleAttemptStatus(input) ==
    IF ~ validUpdatePuzzleAttemptInput(input) THEN "invalid"
    ELSE IF noUpdateValues(input) THEN "no values"
    ELSE IF input.id \notin DOMAIN puzzleAttemptsTable THEN "not found"
    ELSE "ok"

\* updatePuzzleAttempt: one call in flight is served
updatePuzzleAttempt ==
    \E input \in saveCalls :
        /\ saveCalls' = saveCalls \ {input}
        /\ puzzleAttemptsTable' =
              IF updatePuzzleAttemptStatus(input) = "ok"
              THEN [id \in DOMAIN puzzleAttemptsTable |->
                       IF id = input.id
                       THEN updatedAttempt(puzzleAttemptsTable[id], input)
                       ELSE puzzleAttemptsTable[id]]
              ELSE puzzleAttemptsTable
        /\ reply' = Reply("updatePuzzleAttempt", updatePuzzleAttemptStatus(input))
        /\ UNCHANGED <<clientVars, currentAttempt, attemptCall, achievementCalls,
                       usersTable, puzzlesTable, achievementsTable, puzzleRpcVars,
                       evaluatorVars, creatorVars>>

\* createAchievementInputSchema: completion_time: z.number().positive()
validCreateAchievementInput(input) == input.completion_time > 0

\* the ids of the rows of puzzlesTable
PuzzleIds == {row.id : row \in puzzlesTable}

\* createAchievement without the check that the puzzle exists
createAchievementStatus_puzzleUnchecked(input) ==
    IF ~ validCreateAchievementInput(input) THEN "invalid"
    ELSE IF input.user_id \notin usersTable THEN "user not found"
    ELSE "ok"

\* the outcome of createAchievement: the schema rejects the input, the user
\* or the puzzle is not found, or the row is inserted and returned
createAchievementStatus(input) ==
    IF ~ validCreateAchievementInput(input) THEN "invalid"
    ELSE IF input.user_id \notin usersTable THEN "user not found"
    ELSE IF input.puzzle_id \notin PuzzleIds THEN "puzzle not found"
    ELSE "ok"

\* createAchievement: one call in flight is served
createAchievement ==
    \E input \in achievementCalls :
        /\ achievementCalls' = achievementCalls \ {input}
        /\ achievementsTable' =
              IF createAchievementStatus(input) = "ok"
              THEN Append(achievementsTable,
                      [ id |-> Len(achievementsTable) + 1,
                        user_id |-> input.user_id,
                        puzzle_id |-> input.puzzle_id,
                        difficulty_level |-> input.difficulty_level,
                        completion_time |-> input.completion_time,
                        is_cookie_trifecta |-> input.is_cookie_trifecta ])
              ELSE achievementsTable
        /\ reply' = Reply("createAchievement", createAchievementStatus(input))
        /\ UNCHANGED <<clientVars, currentAttempt, attemptCall, saveCalls,
                       usersTable, puzzlesTable, puzzleAttemptsTable, puzzleRpcVars,
                       evaluatorVars, creatorVars>>

----------------------------------------------------------------------------

Next ==
    \/ DragStart
    \/ Drop
    \/ ClickPlaced
    \/ ClickAvailable
    \/ createPuzzleAttempt
    \/ setCurrentAttempt
    \/ updatePuzzleAttempt
    \/ createAchievement

Spec == Init /\ [][Next]_vars

----------------------------------------------------------------------------
(* The play session at rest, for the specifications that do not play *)

NoSession ==
    /\ puzzle = PuzzleScenario
    /\ user = NoUser
    /\ gameState = newGameState(PuzzleScenario)
    /\ draggedDomino = NoDomino
    /\ showSuccess = FALSE
    /\ clock = 0
    /\ moves = 0
    /\ lastMove = NoMove
    /\ completions = 0
    /\ currentAttempt = Null

NoCalls ==
    /\ attemptCall = [status |-> "none",
                      input |-> [user_id |-> NoUser, puzzle_id |-> PuzzleScenario.id,
                                 attempt_data |-> JSONstringify(newGameState(PuzzleScenario))],
                      result |-> Null]
    /\ saveCalls = {}
    /\ achievementCalls = {}
    /\ rpcCalls = {}
    /\ reply = NoReply
    /\ requests = 0

----------------------------------------------------------------------------
(* The PuzzleCreator: painting the regions                                 *)

\* the colours painted with: the first three of REGION_COLORS
PaintColors == {"red", "blue", "green"}

\* the sizes chosen in the width and height selects: the first two offered
ResizeSizes == {3, 4}

\* the cells of the grid rendered
CreatorCells == 0 .. (creatorState.gridWidth * creatorState.gridHeight - 1)

\* the cells clicked: the first and the last of the grid rendered
ClickedCells == {c \in CreatorCells : c = 0 \/ c + 1 \notin CreatorCells}

\* the cells painted so far
PaintedCells == DOMAIN painted

\* the cell is left in the region it is in
removeCell_none(regions, cellId) == regions

\* "Remove cell from any existing region", "Remove empty regions"
removeCell(regions, cellId) ==
    LET filtered == [i \in 1 .. Len(regions) |->
                        [regions[i] EXCEPT
                            !.cells = SelectSeq(@, LAMBDA c : c # cellId)]]
    IN  SelectSeq(filtered, LAMBDA r : r.cells # <<>>)

\* "Add cell to selected color region"
addCell(regions, cellId, regionId) ==
    LET withRegion ==
            IF \E i \in 1 .. Len(regions) : regions[i].id = regionId
            THEN regions
            ELSE Append(regions, [id |-> regionId, cells |-> <<>>, condition |-> <<>>])
    IN  [i \in 1 .. Len(withRegion) |->
            IF withRegion[i].id = regionId
            THEN [withRegion[i] EXCEPT !.cells = Append(@, cellId)]
            ELSE withRegion[i]]

\* Object.entries(state.regions).find(region.cells.includes(cellId)): the ids
\* of the regions that list the cell
regionsOf(regions, cellId) ==
    {regions[i].id : i \in {j \in 1 .. Len(regions) :
                              \E k \in 1 .. Len(regions[j].cells) :
                                  regions[j].cells[k] = cellId}}

\* the first entry of the regions that lists the cell
regionEntry(regions, cellId) ==
    LET i == CHOOSE j \in 1 .. Len(regions) :
                 /\ regions[j].id \in regionsOf(regions, cellId)
                 /\ \A k \in 1 .. j - 1 : regions[k].id \notin regionsOf(regions, cellId)
    IN  regions[i].id

\* the regions after handleGridResize: "Clear regions when grid changes"
resizedRegions_kept(regions) == regions

resizedRegions(regions) == <<>>

\* the titles typed: nothing, blanks only, a name
Titles == {"", " ", "My puzzle"}

\* state.title.trim()
trim(title) == IF title = " " THEN "" ELSE title

\* the fields of the condition dialog when "Set Condition" is clicked: the
\* initial ones, and edited ones with the value field emptied
TempConditions ==
    { [type |-> "sum", value |-> "10"],
      [type |-> "product", value |-> ""] }

\* parseInt(tempCondition.value): <<n>>, or <<>> for NaN
parseInt(text) ==
    CASE text = "10" -> <<10>>
      [] OTHER -> <<>>

\* numericValue of handleSetCondition: parseInt(value) || 0 for the types
\* with a number, the text itself for equality
numericValue(temp) ==
    IF temp.type \in {"sum", "product", "difference", "greater_than", "less_than"}
    THEN (IF parseInt(temp.value) = <<>> THEN 0 ELSE parseInt(temp.value)[1])
    ELSE temp.value

\* the outcome of generateDominoes explored, with its count and maxValue:
\* every Math.random() draw gives the greatest value
GeneratedDominoes(difficulty) ==
    LET count ==
            IF difficulty = "Easy" THEN 4 ELSE IF difficulty = "Medium" THEN 6 ELSE 8
        maxValue ==
            IF difficulty = "Easy" THEN 6 ELSE IF difficulty = "Medium" THEN 9 ELSE 12
    IN  { [i \in 1 .. count |-> <<v, v>>] : v \in {maxValue} }

\* prev.regions with the condition of the selected region set
withCondition(regions, regionId, condition) ==
    [i \in 1 .. Len(regions) |->
        IF regions[i].id = regionId
        THEN [regions[i] EXCEPT !.condition = <<condition>>]
        ELSE regions[i]]

\* the validation of publishPuzzle and testPuzzle
hasRegions(state) == Len(state.regions) > 0
allRegionsHaveConditions(state) ==
    \A i \in 1 .. Len(state.regions) : state.regions[i].condition # <<>>
hasDominoes(state) == Len(state.dominoes) > 0

\* publishPuzzle reaches the mutate without the check of the conditions
canPublish_conditionsUnchecked(state) ==
    /\ user # NoUser
    /\ trim(state.title) # ""
    /\ hasRegions(state) /\ hasDominoes(state)

\* publishPuzzle reaches trpc.createPuzzle.mutate: none of its returns is taken
canPublish(state) ==
    /\ user # NoUser
    /\ trim(state.title) # ""
    /\ hasRegions(state) /\ allRegionsHaveConditions(state) /\ hasDominoes(state)

\* JSON.stringify(state.regions), as the game board reads it: region id -> cells
boardDataOf(regions) ==
    [id \in {regions[i].id : i \in 1 .. Len(regions)} |->
        regions[CHOOSE i \in 1 .. Len(regions) : regions[i].id = id].cells]

\* JSON.stringify(Object.fromEntries(... [id, region.condition!])): an entry
\* whose value is undefined is not written
conditionsDataOf(regions) ==
    LET withOne == SelectSeq(regions, LAMBDA r : r.condition # <<>>)
    IN  [i \in 1 .. Len(withOne) |->
            [region |-> withOne[i].id, type |-> withOne[i].condition[1].type,
             value |-> withOne[i].condition[1].value]]

\* puzzleInput of publishPuzzle
puzzleInput(state) ==
    [ title |-> state.title,
      creator_id |-> <<user>>,
      difficulty_level |-> state.difficulty,
      grid_width |-> state.gridWidth,
      grid_height |-> state.gridHeight,
      board_data |-> boardDataOf(state.regions),
      dominoes_data |-> state.dominoes,
      conditions_data |-> conditionsDataOf(state.regions),
      is_published |-> <<TRUE>> ]

\* the fields of state that "Reset form" writes
resetForm(state) ==
    [state EXCEPT !.title = "", !.difficulty = "Easy", !.gridWidth = 4,
                  !.gridHeight = 4, !.regions = <<>>, !.dominoes = <<>>,
                  !.selectedTool = "paint", !.selectedColor = "red",
                  !.selectedRegion = ""]

\* the creator opened by a guest
InitCreator ==
    /\ NoSession
    /\ NoCalls
    /\ usersTable = UserIds
    /\ puzzlesTable = {PuzzleRow(p, "puzzle", Null) : p \in Puzzles}
    /\ puzzleAttemptsTable = <<>>
    /\ achievementsTable = <<>>
    /\ puzzlesSerial = Cardinality(Puzzles)
    /\ evaluation = NoEvaluation
    /\ creatorState = newCreatorState
    /\ painted = <<>>
    /\ clicks = 0

\* the creator opened by a guest or by a signed-in user
InitPublish ==
    /\ puzzle = PuzzleScenario
    /\ user \in {NoUser} \cup UserIds
    /\ gameState = newGameState(PuzzleScenario)
    /\ draggedDomino = NoDomino
    /\ showSuccess = FALSE
    /\ clock = 0
    /\ moves = 0
    /\ lastMove = NoMove
    /\ completions = 0
    /\ currentAttempt = Null
    /\ NoCalls
    /\ usersTable = UserIds
    /\ puzzlesTable = {PuzzleRow(p, "puzzle", Null) : p \in Puzzles}
    /\ puzzleAttemptsTable = <<>>
    /\ achievementsTable = <<>>
    /\ puzzlesSerial = Cardinality(Puzzles)
    /\ evaluation = NoEvaluation
    /\ creatorState = newCreatorState
    /\ painted = <<>>
    /\ clicks = 0

creatorFrame ==
    UNCHANGED <<clientVars, currentAttempt, attemptCall, saveCalls, achievementCalls,
                tableVars, reply, puzzleRpcVars, evaluatorVars>>

\* the page takes the events of the author: the condition dialog is closed,
\* and the author waits for a publish to settle before going on
DialogClosed == ~ creatorState.showConditionDialog /\ ~ creatorState.isPublishing

\* onClick of a tool button
selectTool ==
    \E tool \in {"paint", "condition"} :
        /\ DialogClosed
        /\ creatorState.selectedTool # tool
        /\ creatorState' = [creatorState EXCEPT !.selectedTool = tool]
        /\ UNCHANGED <<painted, clicks>>
        /\ creatorFrame

\* onClick of a colour button, shown with the paint tool
selectColor ==
    \E color \in PaintColors :
        /\ DialogClosed
        /\ creatorState.selectedTool = "paint"
        /\ creatorState.selectedColor # color
        /\ creatorState' = [creatorState EXCEPT !.selectedColor = color]
        /\ UNCHANGED <<painted, clicks>>
        /\ creatorFrame

\* handleGridResize(width, height) from the width or the height select
handleGridResize ==
    \E size \in ResizeSizes, side \in {"width", "height"} :
        /\ DialogClosed
        /\ size # (IF side = "width" THEN creatorState.gridWidth
                   ELSE creatorState.gridHeight)
        /\ creatorState' =
              [creatorState EXCEPT
                  !.gridWidth = IF side = "width" THEN size ELSE @,
                  !.gridHeight = IF side = "height" THEN size ELSE @,
                  !.regions = resizedRegions(@)]
        /\ painted' = <<>>
        /\ UNCHANGED clicks
        /\ creatorFrame

\* handleCellClick(cellId): paint the cell, or pick its region for a condition
handleCellClick ==
    \E cellId \in ClickedCells :
        /\ DialogClosed
        /\ clicks < MaxClicks
        /\ clicks' = clicks + 1
        /\ IF creatorState.selectedTool = "paint"
           THEN /\ creatorState' =
                      [creatorState EXCEPT
                          !.regions = addCell(removeCell(@, cellId), cellId,
                                              creatorState.selectedColor)]
                /\ painted' =
                      [c \in PaintedCells \cup {cellId} |->
                          IF c = cellId
                          THEN (IF c \in PaintedCells THEN painted[c] ELSE <<>>)
                                   \o <<creatorState.selectedColor>>
                          ELSE painted[c]]
           ELSE /\ creatorState' =
                      IF regionsOf(creatorState.regions, cellId) # {}
                      THEN [creatorState EXCEPT
                               !.selectedRegion = regionEntry(creatorState.regions, cellId),
                               !.showConditionDialog = TRUE]
                      ELSE creatorState
                /\ UNCHANGED painted
        /\ creatorFrame

\* the Cancel button of the condition dialog: setShowConditionDialog(false)
cancelCondition ==
    /\ creatorState.showConditionDialog
    /\ creatorState' = [creatorState EXCEPT !.showConditionDialog = FALSE]
    /\ UNCHANGED <<painted, clicks>>
    /\ creatorFrame

\* handleSetCondition, from the "Set Condition" button of the dialog
handleSetCondition ==
    \E temp \in TempConditions :
        /\ creatorState.showConditionDialog
        /\ creatorState.selectedRegion # ""
        /\ creatorState' =
              [creatorState EXCEPT
                  !.regions = withCondition(@, creatorState.selectedRegion,
                                            [type |-> temp.type,
                                             value |-> numericValue(temp)]),
                  !.selectedRegion = "",
                  !.showConditionDialog = FALSE]
        /\ UNCHANGED <<painted, clicks>>
        /\ creatorFrame

\* onChange of the title input
typeTitle ==
    \E title \in Titles :
        /\ DialogClosed
        /\ creatorState.title # title
        /\ creatorState' = [creatorState EXCEPT !.title = title]
        /\ UNCHANGED <<painted, clicks>>
        /\ creatorFrame

\* generateDominoes, from the "Generate Dominoes" button
generateDominoes ==
    \E newDominoes \in GeneratedDominoes(creatorState.difficulty) :
        /\ DialogClosed
        /\ creatorState.dominoes # newDominoes
        /\ creatorState' = [creatorState EXCEPT !.dominoes = newDominoes]
        /\ UNCHANGED <<painted, clicks>>
        /\ creatorFrame

\* publishPuzzle up to the await, from the "Publish Puzzle" button (disabled
\* for a guest and while publishing)
publishPuzzle ==
    /\ DialogClosed
    /\ user # NoUser
    /\ ~ creatorState.isPublishing
    /\ canPublish(creatorState)
    /\ creatorState' = [creatorState EXCEPT !.isPublishing = TRUE]
    /\ rpcCalls' = rpcCalls \cup {[op |-> "createPuzzle",
                                   input |-> puzzleInput(creatorState)]}
    /\ UNCHANGED <<painted, clicks, clientVars, currentAttempt, attemptCall,
                   saveCalls, achievementCalls, tableVars, reply, puzzlesSerial,
                   requests, evaluatorVars>>

\* publishPuzzle after the await: the form is reset, or the catch is taken
publishPuzzleSettled ==
    /\ creatorState.isPublishing
    /\ rpcCalls = {}
    /\ reply.op = "createPuzzle"
    /\ IF reply.status = "ok"
       THEN /\ creatorState' =
                  [resetForm(creatorState) EXCEPT !.isPublishing = FALSE,
                                                  !.publishResult = "success"]
            /\ painted' = <<>>
       ELSE /\ creatorState' = [creatorState EXCEPT !.isPublishing = FALSE,
                                                    !.publishResult = "failure"]
            /\ UNCHANGED painted
    /\ UNCHANGED clicks
    /\ creatorFrame

----------------------------------------------------------------------------
(* The RPC interface under the requests of any caller: the tables as       *)
(* seeded, and the inputs the callers send.                                *)

StoredUsers == {1, 2}

\* a system puzzle (no creator) and a puzzle of user 1
StoredPuzzles ==
    {PuzzleRow(PuzzleScenario, "system", Null), PuzzleRow(PuzzleTwo, "mine", 1)}

\* puzzle ids asked for: the stored ones and the next of the serial
AskedPuzzleIds == 1 .. (Cardinality(StoredPuzzles) + 1)

\* user ids asked for: the stored ones and one that is not stored
AskedUserIds == StoredUsers \cup {3}

\* the sizes around the two ends of the range
GridSizes == {MinGridSize - 1, MinGridSize, MaxGridSize, MaxGridSize + 1}

\* an optional field: not provided, or provided with a value of S
Optional(S) == {<<>>} \cup {<<v>> : v \in S}

CreatePuzzleInputs ==
    {[ title |-> "new", creator_id |-> c,
       difficulty_level |-> PuzzleSingle.difficulty_level,
       grid_width |-> w, grid_height |-> h,
       board_data |-> PuzzleSingle.regions,
       dominoes_data |-> PuzzleSingle.dominoes,
       conditions_data |-> PuzzleSingle.conditions,
       is_published |-> <<>> ] :
        c \in Optional({1, 3}), w \in GridSizes,
        h \in {MinGridSize, MaxGridSize + 1}}

UpdatePuzzleInputs ==
    {[ id |-> id, title |-> <<>>, difficulty_level |-> <<>>,
       grid_width |-> w, grid_height |-> h, board_data |-> b,
       dominoes_data |-> <<>>, conditions_data |-> <<>>, is_published |-> <<>> ] :
        id \in AskedPuzzleIds, w \in Optional(GridSizes),
        h \in Optional({MaxGridSize, MaxGridSize + 1}),
        b \in Optional({PuzzleDouble.regions})}

DeletePuzzleInputs ==
    {[puzzleId |-> id, creatorId |-> c] : id \in AskedPuzzleIds, c \in StoredUsers}

CreatePuzzleAttemptInputs ==
    {[user_id |-> u, puzzle_id |-> id, attempt_data |-> "{}"] :
        u \in {NoUser, 1}, id \in AskedPuzzleIds}

InitServer ==
    /\ NoSession
    /\ NoCalls
    /\ usersTable = StoredUsers
    /\ puzzlesTable = StoredPuzzles
    /\ puzzleAttemptsTable = <<>>
    /\ achievementsTable = <<>>
    /\ puzzlesSerial = Cardinality(StoredPuzzles)
    /\ evaluation = NoEvaluation
    /\ creatorState = newCreatorState
    /\ painted = <<>>
    /\ clicks = 0

\* a caller makes its next call when the one before has been served
MayRequest ==
    /\ requests < MaxRequests
    /\ rpcCalls = {}
    /\ saveCalls = {}
    /\ achievementCalls = {}
    /\ attemptCall.status \in {"none", "done"}

\* trpc.<op>.mutate(input) / .query(input) of one of the puzzle procedures
request(op, input) ==
    /\ MayRequest
    /\ requests' = requests + 1
    /\ rpcCalls' = rpcCalls \cup {[op |-> op, input |-> input]}
    /\ UNCHANGED <<clientVars, currentAttempt, attemptCall, saveCalls,
                   achievementCalls, tableVars, puzzlesSerial, reply,
                   evaluatorVars, creatorVars>>

requestCreatePuzzle == \E input \in CreatePuzzleInputs : request("createPuzzle", input)
requestUpdatePuzzle == \E input \in UpdatePuzzleInputs : request("updatePuzzle", input)
requestDeletePuzzle == \E input \in DeletePuzzleInputs : request("deletePuzzle", input)

\* trpc.createPuzzleAttempt.mutate(input)
requestCreatePuzzleAttempt ==
    \E input \in CreatePuzzleAttemptInputs :
        /\ MayRequest
        /\ requests' = requests + 1
        /\ attemptCall' = [status |-> "sent", input |-> input, result |-> Null]
        /\ UNCHANGED <<clientVars, currentAttempt, saveCalls, achievementCalls,
                       tableVars, puzzlesSerial, rpcCalls, reply, evaluatorVars,
                       creatorVars>>

\* the range check left out
validGridSize_unchecked(n) == n > 0

\* z.number().int().min(3).max(10)
validGridSize(n) == MinGridSize <= n /\ n <= MaxGridSize

\* createPuzzleInputSchema
validCreatePuzzleInput(input) ==
    /\ input.title # ""
    /\ validGridSize(input.grid_width)
    /\ validGridSize(input.grid_height)

\* updatePuzzleInputSchema
validUpdatePuzzleInput(input) ==
    /\ \A i \in 1 .. Len(input.title) : input.title[i] # ""
    /\ \A i \in 1 .. Len(input.grid_width) : validGridSize(input.grid_width[i])
    /\ \A i \in 1 .. Len(input.grid_height) : validGridSize(input.grid_height[i])

\* the outcome of createPuzzle: the schema rejects the input, the creator
\* does not exist, or the row is inserted and returned
createPuzzleStatus(input) ==
    IF ~ validCreatePuzzleInput(input) THEN "invalid"
    ELSE IF input.creator_id # <<>> /\ input.creator_id[1] # 0
            /\ input.creator_id[1] \notin usersTable
         THEN "creator not found"
    ELSE "ok"

\* createPuzzle: the call in flight is served
createPuzzle ==
    \E call \in rpcCalls :
        /\ call.op = "createPuzzle"
        /\ rpcCalls' = rpcCalls \ {call}
        /\ LET input == call.input
               ok == createPuzzleStatus(input) = "ok"
               row == [ id |-> puzzlesSerial + 1,
                        title |-> input.title,
                        creator_id |-> IF input.creator_id # <<>> /\ input.creator_id[1] # 0
                                       THEN input.creator_id[1] ELSE Null,
                        difficulty_level |-> input.difficulty_level,
                        grid_width |-> input.grid_width,
                        grid_height |-> input.grid_height,
                        board_data |-> input.board_data,
                        dominoes_data |-> input.dominoes_data,
                        conditions_data |-> input.conditions_data,
                        is_published |-> IF input.is_published # <<>>
                                         THEN input.is_published[1] ELSE FALSE ]
           IN  /\ puzzlesTable' = IF ok THEN puzzlesTable \cup {row} ELSE puzzlesTable
               /\ puzzlesSerial' = IF ok THEN puzzlesSerial + 1 ELSE puzzlesSerial
               /\ reply' = Reply("createPuzzle", createPuzzleStatus(input))
        /\ UNCHANGED <<clientVars, currentAttempt, attemptCall, saveCalls,
                       achievementCalls, usersTable, puzzleAttemptsTable,
                       achievementsTable, requests, evaluatorVars, creatorVars>>

\* the row after .set(updateData): only the provided fields change
updatedPuzzle(row, input) ==
    [ row EXCEPT
        !.title = IF input.title # <<>> THEN input.title[1] ELSE @,
        !.difficulty_level =
            IF input.difficulty_level # <<>> THEN input.difficulty_level[1] ELSE @,
        !.grid_width = IF input.grid_width # <<>> THEN input.grid_width[1] ELSE @,
        !.grid_height = IF input.grid_height # <<>> THEN input.grid_height[1] ELSE @,
        !.board_data = IF input.board_data # <<>> THEN input.board_data[1] ELSE @,
        !.dominoes_data =
            IF input.dominoes_data # <<>> THEN input.dominoes_data[1] ELSE @,
        !.conditions_data =
            IF input.conditions_data # <<>> THEN input.conditions_data[1] ELSE @,
        !.is_published = IF input.is_published # <<>> THEN input.is_published[1] ELSE @ ]

\* the outcome of updatePuzzle: the schema rejects the input, no row has the
\* id, or the row is updated and returned
updatePuzzleStatus(input) ==
    IF ~ validUpdatePuzzleInput(input) THEN "invalid"
    ELSE IF input.id \notin PuzzleIds THEN "not found"
    ELSE "ok"

\* updatePuzzle: the call in flight is served
updatePuzzle ==
    \E call \in rpcCalls :
        /\ call.op = "updatePuzzle"
        /\ rpcCalls' = rpcCalls \ {call}
        /\ puzzlesTable' =
              IF updatePuzzleStatus(call.input) = "ok"
              THEN {IF row.id = call.input.id THEN updatedPuzzle(row, call.input)
                    ELSE row : row \in puzzlesTable}
              ELSE puzzlesTable
        /\ reply' = Reply("updatePuzzle", updatePuzzleStatus(call.input))
        /\ UNCHANGED <<clientVars, currentAttempt, attemptCall, saveCalls,
                       achievementCalls, usersTable, puzzleAttemptsTable,
                       achievementsTable, puzzlesSerial, requests, evaluatorVars,
                       creatorVars>>

\* the delete without the condition on creator_id
deletedRows_anyCreator(puzzleId, creatorId) ==
    {row \in puzzlesTable : row.id = puzzleId}

\* where id = puzzleId and creator_id = creatorId: no row with a null
\* creator_id matches
deletedRows(puzzleId, creatorId) ==
    {row \in puzzlesTable :
        row.id = puzzleId /\ row.creator_id # Null /\ row.creator_id = creatorId}

\* deletePuzzle: the call in flight is served
deletePuzzle ==
    \E call \in rpcCalls :
        /\ call.op = "deletePuzzle"
        /\ rpcCalls' = rpcCalls \ {call}
        /\ LET deleted == deletedRows(call.input.puzzleId, call.input.creatorId)
           IN  /\ puzzlesTable' = puzzlesTable \ deleted
               /\ reply' = Reply("deletePuzzle",
                                 IF Cardinality(deleted) > 0 THEN "true" ELSE "false")
        /\ UNCHANGED <<clientVars, currentAttempt, attemptCall, saveCalls,
                       achievementCalls, usersTable, puzzleAttemptsTable,
                       achievementsTable, puzzlesSerial, requests, evaluatorVars,
                       creatorVars>>

\* the achievements selected without the condition on user_id
cookieAchievements_anyUser(userId) ==
    {i \in 1 .. Len(achievementsTable) : achievementsTable[i].is_cookie_trifecta}

\* select from achievementsTable where user_id = userId and
\* is_cookie_trifecta = true
cookieAchievements(userId) ==
    {i \in 1 .. Len(achievementsTable) :
        /\ achievementsTable[i].user_id = userId
        /\ achievementsTable[i].is_cookie_trifecta}

\* achievement.difficulty_level.toLowerCase()
toLowerCase(difficulty_level) ==
    CASE difficulty_level = "Easy" -> "easy"
      [] difficulty_level = "Medium" -> "medium"
      [] difficulty_level = "Hard" -> "hard"

\* getCookieTrifectaStatus: the call in flight is served; the reply lists
\* the keys of status that are true
getCookieTrifectaStatus ==
    \E call \in rpcCalls :
        /\ call.op = "getCookieTrifectaStatus"
        /\ rpcCalls' = rpcCalls \ {call}
        /\ reply' = [ op |-> "getCookieTrifectaStatus", status |-> "ok",
                      levels |-> {toLowerCase(achievementsTable[i].difficulty_level) :
                                     i \in cookieAchievements(call.input)} ]
        /\ UNCHANGED <<clientVars, currentAttempt, attemptCall, saveCalls,
                       achievementCalls, tableVars, puzzlesSerial, requests,
                       evaluatorVars, creatorVars>>

UpdatePuzzleAttemptInputs ==
    {[ id |-> id, attempt_data |-> a, is_completed |-> c, completion_time |-> t,
       completed_at |-> d ] :
        id \in 1 .. 2, a \in Optional({"{x}"}), c \in Optional({TRUE, FALSE}),
        t \in Optional({Null, 0, 30}), d \in Optional({Null, 5})}

CreateAchievementInputs ==
    {[ call |-> 0, user_id |-> u, puzzle_id |-> id, difficulty_level |-> l,
       completion_time |-> t, is_cookie_trifecta |-> f ] :
        u \in AskedUserIds, id \in {1, Cardinality(StoredPuzzles) + 1},
        l \in {"Easy", "Medium", "Hard"}, t \in {0, 45}, f \in {TRUE, FALSE}}

\* trpc.updatePuzzleAttempt.mutate(input)
requestUpdatePuzzleAttempt ==
    \E input \in UpdatePuzzleAttemptInputs :
        /\ MayRequest
        /\ requests' = requests + 1
        /\ saveCalls' = saveCalls \cup {input}
        /\ UNCHANGED <<clientVars, currentAttempt, attemptCall, achievementCalls,
                       tableVars, puzzlesSerial, rpcCalls, reply, evaluatorVars,
                       creatorVars>>

\* trpc.createAchievement.mutate(input)
requestCreateAchievement ==
    \E input \in CreateAchievementInputs :
        /\ MayRequest
        /\ requests' = requests + 1
        /\ achievementCalls' = achievementCalls \cup {input}
        /\ UNCHANGED <<clientVars, currentAttempt, attemptCall, saveCalls,
                       tableVars, puzzlesSerial, rpcCalls, reply, evaluatorVars,
                       creatorVars>>

requestGetCookieTrifectaStatus ==
    \E userId \in StoredUsers : request("getCookieTrifectaStatus", userId)

NextAttempts ==
    \/ requestCreatePuzzleAttempt
    \/ requestUpdatePuzzleAttempt
    \/ createPuzzleAttempt
    \/ setCurrentAttempt
    \/ updatePuzzleAttempt

SpecAttempts == InitServer /\ [][NextAttempts]_vars

NextAchievements ==
    \/ requestCreateAchievement
    \/ requestGetCookieTrifectaStatus
    \/ createAchievement
    \/ getCookieTrifectaStatus

SpecAchievements == InitServer /\ [][NextAchievements]_vars

NextPuzzles ==
    \/ requestCreatePuzzle
    \/ requestUpdatePuzzle
    \/ requestDeletePuzzle
    \/ requestCreatePuzzleAttempt
    \/ createPuzzle
    \/ updatePuzzle
    \/ deletePuzzle
    \/ createPuzzleAttempt
    \/ setCurrentAttempt

SpecPuzzles == InitServer /\ [][NextPuzzles]_vars

\* the puzzle creator: drawing the regions and setting their conditions
NextCreator ==
    \/ selectTool
    \/ selectColor
    \/ handleGridResize
    \/ handleCellClick
    \/ cancelCondition
    \/ handleSetCondition

SpecCreator == InitCreator /\ [][NextCreator]_vars

\* the puzzle creator on the grid it opens with, up to the publication, with
\* the createPuzzle procedure the publication calls
NextPublish ==
    \/ selectTool
    \/ selectColor
    \/ handleCellClick
    \/ cancelCondition
    \/ handleSetCondition
    \/ typeTitle
    \/ generateDominoes
    \/ publishPuzzle
    \/ createPuzzle
    \/ publishPuzzleSettled

SpecPublish == InitPublish /\ [][NextPublish]_vars

----------------------------------------------------------------------------
(* One region judged alone: the loop body of checkWinConditions applied to *)
(* a condition and the values of the covered cells, in two cell orders.    *)

InitEvaluator ==
    /\ NoSession
    /\ NoCalls
    /\ usersTable = UserIds
    /\ puzzlesTable = {PuzzleRow(p, "puzzle", Null) : p \in Puzzles}
    /\ puzzleAttemptsTable = <<>>
    /\ achievementsTable = <<>>
    /\ puzzlesSerial = Cardinality(Puzzles)
    /\ \E c \in EvaluatedConditions, v \in ValueSeqs :
          \E w \in Reorderings(v) :
              evaluation = [condition |-> c, values |-> v, reordered |-> w,
                            outcome |-> "pending", outcomeReordered |-> "pending"]
    /\ creatorState = newCreatorState
    /\ painted = <<>>
    /\ clicks = 0

judgeRegion ==
    /\ evaluation.outcome = "pending"
    /\ evaluation' =
          [evaluation EXCEPT
              !.outcome = regionOutcome(evaluation.condition, evaluation.values),
              !.outcomeReordered =
                  regionOutcome(evaluation.condition, evaluation.reordered)]
    /\ UNCHANGED <<clientVars, currentAttempt, attemptCall, saveCalls,
                   achievementCalls, tableVars, reply, puzzleRpcVars, creatorVars>>

NextEvaluator == judgeRegion

SpecEvaluator == InitEvaluator /\ [][NextEvaluator]_vars

----------------------------------------------------------------------------
(* Vocabulary of the properties *)

boardState == gameState.boardState

\* the grid cell is covered: the board state has an entry under its key
Covered(cell) == CellKey(cell) \in DOMAIN boardState

RegionCells(r) == {puzzle.regions[r][i] : i \in 1 .. Len(puzzle.regions[r])}

FullyCovered(r) == \A cell \in RegionCells(r) : Covered(cell)

\* the regions reported as violated
ViolatedRegions ==
    {gameState.violatedConditions[i] : i \in 1 .. Len(gameState.violatedConditions)}

AllDominoesPlaced ==
    \A i \in 1 .. Len(gameState.dominoes) : gameState.dominoes[i].isPlaced

\* the keys of the board state that hold a half of the domino
CellsOf(dominoId) == {k \in DOMAIN boardState : boardState[k].dominoId = dominoId}

\* the second cell of a placement: the right neighbour, or the one below
Neighbour(cell, rotation) ==
    IF rotation = "horizontal" THEN cell + 1 ELSE cell + puzzle.grid_width

\* the orientation the domino has before the step
RotationOf(dominoId) ==
    gameState.dominoes[FindDomino(gameState.dominoes, dominoId)].rotation

\* the step is a call of handleDominoMove with a target cell
PlaceStep == moves' = moves + 1 /\ lastMove'.op = "place"

----------------------------------------------------------------------------
(* C1..C10: the game board *)

\* C1: the puzzle is reported complete if and only if every domino is placed,
\* every region is fully covered and no region is violated; in particular
\* never while some region has an uncovered cell.
C1_CompleteIffPlacedCoveredSatisfied ==
    gameState.isComplete <=>
        /\ AllDominoesPlaced
        /\ \A r \in DOMAIN puzzle.regions : FullyCovered(r)
        /\ ViolatedRegions = {}

\* C2: a region with an uncovered cell is not in the violated set, whatever
\* its covered cells hold.
C2_PartialRegionNotJudged ==
    \A r \in DOMAIN puzzle.regions : ~ FullyCovered(r) => r \notin ViolatedRegions

\* C3: in the scenario puzzle (3x3, region {0,1} sum 7, domino (3,4)),
\* placing the domino horizontally at cell 0 gives cell 0 the value 3 and
\* cell 1 the value 4, and makes the region filled, not violated and the
\* puzzle complete.
C3_ScenarioSumSeven ==
    ( /\ puzzle = PuzzleScenario
      /\ moves = 1
      /\ lastMove.op = "place"
      /\ lastMove.cell = 0 )
    => /\ Covered(0) /\ boardState[CellKey(0)].value = 3
       /\ Covered(1) /\ boardState[CellKey(1)].value = 4
       /\ FullyCovered("red")
       /\ "red" \notin ViolatedRegions
       /\ gameState.isComplete

\* C4: placing a domino and removing it at once restores the board state to
\* what it was before the placement.
C4_PlaceRemoveRoundTrip ==
    lastMove.undone => boardState = lastMove.before

\* C5: a place with a target cell (the anchor, or its right / lower
\* neighbour) already covered leaves the board state and every domino
\* unchanged.
C5_OccupiedPlaceChangesNothing ==
    [][ ( /\ PlaceStep
          /\ \/ Covered(lastMove'.cell)
             \/ Covered(Neighbour(lastMove'.cell, RotationOf(lastMove'.dominoId))) )
        => /\ gameState'.boardState = gameState.boardState
           /\ gameState'.dominoes = gameState.dominoes ]_vars

\* C6: every covered cell of the board state is a cell of the grid, and a
\* horizontal place anchored in the last column, or a vertical place anchored
\* in the last row, changes nothing.
C6_CoveredCellsInGrid ==
    /\ [](\A k \in DOMAIN boardState : k[2] = "" /\ k[1] \in GridCells)
    /\ [][ ( /\ PlaceStep
              /\ \/ Neighbour(lastMove'.cell, RotationOf(lastMove'.dominoId))
                        \notin GridCells
                 \/ /\ RotationOf(lastMove'.dominoId) = "horizontal"
                    /\ lastMove'.cell % puzzle.grid_width = puzzle.grid_width - 1 )
            => /\ gameState'.boardState = gameState.boardState
               /\ gameState'.dominoes = gameState.dominoes ]_vars

\* C7: a place of a domino that is on the board leaves the board state
\* unchanged, and a domino never covers more than two cells.
C7_DominoCoversAtMostTwoCells ==
    /\ [][ ( /\ PlaceStep
              /\ gameState.dominoes[FindDomino(gameState.dominoes,
                                               lastMove'.dominoId)].isPlaced )
            => gameState'.boardState = gameState.boardState ]_vars
    /\ [](\A i \in 1 .. Len(gameState.dominoes) :
              Cardinality(CellsOf(gameState.dominoes[i].id)) <= 2)

\* C8: the completed state is terminal and entered once: no step takes a
\* complete attempt back to not complete, and it is not entered twice.
C8_CompletedTerminalOnce ==
    [][ /\ gameState.isComplete => gameState'.isComplete
        /\ completions' <= 1 ]_vars

\* C9: no sequence of operations of one attempt creates a second achievement:
\* at most one achievement of the session's user and puzzle is stored.
C9_OneAchievementPerAttempt ==
    Cardinality({i \in 1 .. Len(achievementsTable) :
                    /\ achievementsTable[i].user_id = user
                    /\ achievementsTable[i].puzzle_id = puzzle.id}) <= 1

----------------------------------------------------------------------------
(* C11..C13: one region judged alone *)

\* the region has been judged
Judged == evaluation.outcome \notin {"none", "pending"}

\* the region is not on the violated list: it shows as satisfied and does
\* not keep the puzzle from being complete
Satisfied == evaluation.outcome # "violated"
SatisfiedReordered == evaluation.outcomeReordered # "violated"

\* how many of the values are k
Occurrences(values, k) == Cardinality({i \in 1 .. Len(values) : values[i] = k})

\* the sum and the product of the values as a multiset
BagSum(values) ==
    LET upTo[k \in 0 .. MaxPip] ==
            k * Occurrences(values, k) + (IF k = 0 THEN 0 ELSE upTo[k - 1])
    IN  upTo[MaxPip]

BagProduct(values) ==
    LET upTo[k \in 0 .. MaxPip] ==
            (IF Occurrences(values, k) = 0 THEN 1 ELSE k ^ Occurrences(values, k))
                * (IF k = 0 THEN 1 ELSE upTo[k - 1])
    IN  upTo[MaxPip]

\* C11: a difference region with two values [a, b] is satisfied iff
\* |a - b| is the target; with one value or with no value it is not
\* satisfied.
C11_DifferenceNeedsTwoValues ==
    (Judged /\ evaluation.condition.type = "difference") =>
        LET v == evaluation.values
        IN  /\ Len(v) = 2 =>
                  (Satisfied <=> Abs(v[1] - v[2]) = evaluation.condition.value)
            /\ Len(v) <= 1 => ~ Satisfied

\* C12: an equality region is satisfied iff all its values are equal: always
\* with no value or one value, and with two values [a, b] iff a = b.
C12_EqualityIffAllEqual ==
    (Judged /\ evaluation.condition.type = "equality") =>
        LET v == evaluation.values
        IN  Satisfied <=> \A i, j \in 1 .. Len(v) : v[i] = v[j]

\* C12 witness: three values, the first two equal and the third not, judged
\* violated.
C12_Witness ==
    /\ Judged
    /\ evaluation.condition.type = "equality"
    /\ Len(evaluation.values) = 3
    /\ evaluation.values[1] = evaluation.values[2]
    /\ evaluation.values[3] # evaluation.values[1]
    /\ evaluation.outcome = "violated"

\* the sum or product region is satisfied in both cell orders alike, and
\* iff the sum, respectively the product, of its values is the target
SumProductByMultiset ==
    LET c == evaluation.condition
        v == evaluation.values
    IN  /\ Satisfied <=> SatisfiedReordered
        /\ Satisfied <=>
              (IF c.type = "sum" THEN BagSum(v) ELSE BagProduct(v)) = c.value

----------------------------------------------------------------------------
(* C14, C19, C20: the puzzle procedures *)

\* the step serves the call: a handler takes it out of the calls in flight
Served(call) == call \in rpcCalls /\ rpcCalls' = rpcCalls \ {call}

\* the grid sizes a createPuzzle or updatePuzzle input provides
SizesProvided(call) ==
    IF call.op = "createPuzzle"
    THEN {call.input.grid_width, call.input.grid_height}
    ELSE {call.input.grid_width[i] : i \in 1 .. Len(call.input.grid_width)}
            \cup {call.input.grid_height[i] : i \in 1 .. Len(call.input.grid_height)}

\* C14: every stored puzzle has grid_width and grid_height in 3..10, and a
\* createPuzzle or updatePuzzle request with a width or height outside that
\* range is rejected and changes no stored puzzle.
C14_StoredGridSizesInRange ==
    /\ [](\A row \in puzzlesTable :
              /\ row.grid_width \in 3 .. 10
              /\ row.grid_height \in 3 .. 10)
    /\ [][ \A call \in rpcCalls :
              ( /\ Served(call)
                /\ call.op \in {"createPuzzle", "updatePuzzle"}
                /\ \E n \in SizesProvided(call) : n \notin 3 .. 10 )
              => /\ reply'.status = "invalid"
                 /\ puzzlesTable' = puzzlesTable ]_vars

\* C14 witness: a puzzle created 10 wide is stored, and an updatePuzzle with
\* a size of 11 has just been rejected.
C14_Witness ==
    /\ reply = Reply("updatePuzzle", "invalid")
    /\ \E row \in puzzlesTable : row \notin StoredPuzzles /\ row.grid_width = 10

\* C19: deletePuzzle(puzzleId, creatorId) returns true and removes exactly
\* the puzzle with that id when such a puzzle exists and its creator_id is
\* creatorId; otherwise it returns false and changes no stored puzzle.
C19_DeleteOnlyOwnPuzzle ==
    [][ \A call \in rpcCalls :
          (Served(call) /\ call.op = "deletePuzzle") =>
              IF \E row \in puzzlesTable :
                     /\ row.id = call.input.puzzleId
                     /\ row.creator_id = call.input.creatorId
              THEN /\ reply'.status = "true"
                   /\ puzzlesTable' =
                         {row \in puzzlesTable : row.id # call.input.puzzleId}
              ELSE /\ reply'.status = "false"
                   /\ puzzlesTable' = puzzlesTable ]_vars

\* C19 witness: the puzzle of user 1 has been deleted and the system puzzle
\* is still stored.
C19_Witness ==
    /\ reply = Reply("deletePuzzle", "true")
    /\ PuzzleIds = {PuzzleScenario.id}

\* grid size, regions, conditions and dominoes of a stored puzzle
Definition(row) ==
    <<row.grid_width, row.grid_height, row.board_data, row.conditions_data,
      row.dominoes_data>>

\* some attempt on the puzzle is stored and not completed
HasOpenAttempt(puzzleId) ==
    \E i \in 1 .. Len(puzzleAttemptsTable) :
        /\ puzzleAttemptsTable[i].puzzle_id = puzzleId
        /\ ~ puzzleAttemptsTable[i].is_completed

\* C20: while an attempt on a puzzle exists that is not completed, no step
\* deletes the puzzle or changes its definition.
C20_DefinitionFixedWhileAttempted ==
    [][ \A row \in puzzlesTable :
          HasOpenAttempt(row.id) =>
              \E after \in puzzlesTable' :
                  after.id = row.id /\ Definition(after) = Definition(row) ]_vars

----------------------------------------------------------------------------
(* C15: painting in the puzzle creator *)

\* the places (region, position) where the regions list the cell
PlacesOf(cellId) ==
    {<<i, k>> \in (1 .. Len(creatorState.regions)) \X (1 .. MaxClicks) :
        /\ k <= Len(creatorState.regions[i].cells)
        /\ creatorState.regions[i].cells[k] = cellId}

\* C15: every painted cell is listed once, in the region of the colour it
\* was painted with last; a cell never painted is listed nowhere; no two
\* regions share an id.
C15_LastPaintWins ==
    /\ \A cellId \in CreatorCells :
          IF cellId \in PaintedCells
          THEN /\ Cardinality(PlacesOf(cellId)) = 1
               /\ regionsOf(creatorState.regions, cellId)
                     = {painted[cellId][Len(painted[cellId])]}
          ELSE PlacesOf(cellId) = {}
    /\ \A i, j \in 1 .. Len(creatorState.regions) :
          creatorState.regions[i].id = creatorState.regions[j].id => i = j

\* C15 witness: a cell painted red and then blue, while another cell keeps
\* the red region.
C15_Witness ==
    \E cellId \in PaintedCells :
        /\ Len(painted[cellId]) >= 2
        /\ painted[cellId][1] = "red"
        /\ painted[cellId][2] = "blue"
        /\ regionsOf(creatorState.regions, cellId) = {"blue"}
        /\ \E i \in 1 .. Len(creatorState.regions) : creatorState.regions[i].id = "red"

----------------------------------------------------------------------------
(* C16..C18: attempts and achievements *)

\* the fields updatePuzzleAttempt may write, and those it never writes
WritableFields == {"attempt_data", "is_completed", "completion_time", "completed_at"}
FixedFields == {"id", "user_id", "puzzle_id", "started_at"}

\* C16: updatePuzzleAttempt leaves every other attempt as it is and, of the
\* attempt it names, user_id, puzzle_id, started_at and every field its
\* input does not provide; when it succeeds every provided field holds the
\* input's value, null included.
C16_UpdateWritesOnlyProvidedFields ==
    [][ \A input \in saveCalls :
          (saveCalls' = saveCalls \ {input}) =>
              /\ DOMAIN puzzleAttemptsTable' = DOMAIN puzzleAttemptsTable
              /\ \A id \in DOMAIN puzzleAttemptsTable :
                    LET old == puzzleAttemptsTable[id]
                        new == puzzleAttemptsTable'[id]
                    IN  IF id # input.id
                        THEN new = old
                        ELSE /\ \A f \in FixedFields : new[f] = old[f]
                             /\ \A f \in WritableFields :
                                   IF input[f] = <<>>
                                   THEN new[f] = old[f]
                                   ELSE reply'.status = "ok" => new[f] = input[f][1]
                             /\ reply'.status # "ok" => new = old ]_vars

\* C16 witness: of two attempts the first has had its attempt_data and its
\* is_completed written, its completion_time is still null, and the second
\* is as created.
C16_Witness ==
    /\ reply = Reply("updatePuzzleAttempt", "ok")
    /\ Len(puzzleAttemptsTable) = 2
    /\ puzzleAttemptsTable[1].attempt_data = "{x}"
    /\ puzzleAttemptsTable[1].is_completed
    /\ puzzleAttemptsTable[1].completion_time = Null
    /\ puzzleAttemptsTable[2].attempt_data = "{}"
    /\ ~ puzzleAttemptsTable[2].is_completed

\* C17: createAchievement, on an input its schema accepts, fails with a
\* not-found error and stores nothing when the user or the puzzle does not
\* exist; otherwise it stores exactly one new achievement with the input's
\* user, puzzle, difficulty, completion time and trifecta flag.
C17_CreateAchievementNeedsUserAndPuzzle ==
    [][ \A input \in achievementCalls :
          (achievementCalls' = achievementCalls \ {input} /\ input.completion_time > 0) =>
              IF \/ input.user_id \notin usersTable
                 \/ \A row \in puzzlesTable : row.id # input.puzzle_id
              THEN /\ reply'.status \in {"user not found", "puzzle not found"}
                   /\ achievementsTable' = achievementsTable
              ELSE /\ reply'.status = "ok"
                   /\ Len(achievementsTable') = Len(achievementsTable) + 1
                   /\ SubSeq(achievementsTable', 1, Len(achievementsTable))
                         = achievementsTable
                   /\ LET new == achievementsTable'[Len(achievementsTable')]
                      IN  /\ new.user_id = input.user_id
                          /\ new.puzzle_id = input.puzzle_id
                          /\ new.difficulty_level = input.difficulty_level
                          /\ new.completion_time = input.completion_time
                          /\ new.is_cookie_trifecta = input.is_cookie_trifecta ]_vars

\* C17 witness: an achievement is stored and a later call has failed because
\* its puzzle does not exist.
C17_Witness ==
    /\ reply = Reply("createAchievement", "puzzle not found")
    /\ Len(achievementsTable) = 1

\* the difficulty level each key of the status stands for
LevelOf == [easy |-> "Easy", medium |-> "Medium", hard |-> "Hard"]

\* C18: getCookieTrifectaStatus(user) reports a level true iff some stored
\* achievement of that user has that difficulty level and the trifecta flag.
C18_StatusIffOwnTrifecta ==
    [][ \A call \in rpcCalls :
          (Served(call) /\ call.op = "getCookieTrifectaStatus") =>
              \A level \in DOMAIN LevelOf :
                  (level \in reply'.levels) <=>
                      \E i \in 1 .. Len(achievementsTable) :
                          /\ achievementsTable[i].user_id = call.input
                          /\ achievementsTable[i].difficulty_level = LevelOf[level]
                          /\ achievementsTable[i].is_cookie_trifecta ]_vars

\* C18 witness: only easy is reported while user 1 holds an Easy trifecta
\* and user 2 a Hard one.
C18_Witness ==
    /\ reply.op = "getCookieTrifectaStatus"
    /\ reply.levels = {"easy"}
    /\ \E i, j \in 1 .. Len(achievementsTable) :
          /\ achievementsTable[i].user_id = 1
          /\ achievementsTable[i].difficulty_level = "Easy"
          /\ achievementsTable[i].is_cookie_trifecta
          /\ achievementsTable[j].user_id = 2
          /\ achievementsTable[j].difficulty_level = "Hard"
          /\ achievementsTable[j].is_cookie_trifecta

----------------------------------------------------------------------------
(* C21, C23..C25, C27, C28: the game board and its calls *)

\* the step is a call of handleDominoRotate
RotateStep == moves' = moves + 1 /\ lastMove'.op = "rotate"

\* the keys the domino holds are those of its recorded orientation: the
\* second half has the suffix of that orientation
OrientationAgrees(d) ==
    LET secondSuffix == SecondKey(0, d.rotation)[2]
    IN  \A k \in CellsOf(d.id) : k[2] \in {"", secondSuffix}

\* C21: rotate acts only on a domino that is not placed (it is rejected, or
\* re-places the domino, when the domino is placed), and no placed domino has
\* a recorded orientation that disagrees with the cells it covers.
C21_RotateKeepsOrientationOfPlaced ==
    /\ [][ RotateStep =>
              ~ gameState.dominoes[FindDomino(gameState.dominoes,
                                              lastMove'.dominoId)].isPlaced ]_vars
    /\ [](\A i \in 1 .. Len(gameState.dominoes) :
              gameState.dominoes[i].isPlaced => OrientationAgrees(gameState.dominoes[i]))

\* the stored attempt of the session holds the client's present state: its
\* attempt_data, is_completed and completion_time are those a save of the
\* present gameState carries
StoredIsLatest ==
    /\ currentAttempt \in DOMAIN puzzleAttemptsTable
    /\ LET row == puzzleAttemptsTable[currentAttempt]
           latest == saveInput(gameState, gameState.isComplete, clock)
       IN  /\ row.attempt_data = latest.attempt_data[1]
           /\ row.is_completed = latest.is_completed[1]
           /\ row.completion_time = latest.completion_time[1]

\* the step serves the last save of the session that is in flight
LastSaveServed == \E input \in saveCalls : saveCalls = {input} /\ saveCalls' = {}

\* C23: a save carrying an older state never overwrites a newer one: when
\* the stored attempt holds the latest client state and the last save in
\* flight settles, the stored attempt still holds the latest client state.
C23_OlderSaveNeverOverwrites ==
    [][ (StoredIsLatest /\ LastSaveServed) => StoredIsLatest' ]_vars

\* no request of the session is outstanding
Settled ==
    /\ saveCalls = {}
    /\ achievementCalls = {}
    /\ attemptCall.status \in {"none", "done"}

\* C24: when an achievement of the session's user and puzzle is stored and
\* the session's requests have settled, an attempt of that user on that
\* puzzle is stored with is_completed = true.
C24_AchievementHasCompletedAttempt ==
    ( /\ Settled
      /\ \E i \in 1 .. Len(achievementsTable) :
            /\ achievementsTable[i].user_id = user
            /\ achievementsTable[i].puzzle_id = puzzle.id )
    => \E j \in 1 .. Len(puzzleAttemptsTable) :
          /\ puzzleAttemptsTable[j].user_id = user
          /\ puzzleAttemptsTable[j].puzzle_id = puzzle.id
          /\ puzzleAttemptsTable[j].is_completed

\* C25: a stored attempt has is_completed = true exactly when its
\* completion_time and its completed_at are both non-null: it is never
\* stored as completed without a completion time, nor as not completed with
\* one.
C25_CompletedIffTimesSet ==
    \A id \in DOMAIN puzzleAttemptsTable :
        LET row == puzzleAttemptsTable[id]
        IN  /\ row.is_completed <=>
                  (row.completion_time # Null /\ row.completed_at # Null)
            /\ ~ row.is_completed => row.completion_time = Null

\* C26: after any sequence of createAchievement calls of any caller, every
\* stored achievement has is_cookie_trifecta = true exactly when its
\* completion_time is at most 60 seconds.
C26_StoredFlagDerivedFromTime ==
    \A i \in 1 .. Len(achievementsTable) :
        achievementsTable[i].is_cookie_trifecta
            <=> achievementsTable[i].completion_time <= TrifectaThreshold

\* C27: for every completion by a signed-in user the badge is shown exactly
\* when the achievement created for that completion carries
\* is_cookie_trifecta = true.
C27_BadgeIffAchievementFlag ==
    \A a \in achievementCalls :
        a.call = completions => (showBadge <=> a.is_cookie_trifecta)

\* C28: the completion time in whole seconds the game board sends on a
\* completion, to createAchievement and to updatePuzzleAttempt, is a positive
\* integer, and both inputs pass the validation of their schema.
C28_CompletionSecondsPositive ==
    /\ \A a \in achievementCalls :
          a.completion_time > 0 /\ validCreateAchievementInput(a)
    /\ \A input \in saveCalls :
          input.is_completed = <<TRUE>> =>
              /\ input.completion_time # <<Null>>
              /\ input.completion_time[1] > 0
              /\ validUpdatePuzzleAttemptInput(input)

----------------------------------------------------------------------------
(* C22, C29, C30: the puzzle creator *)

\* the authoring is complete: a signed-in user, a title that is not blank, a
\* region, one condition on every region, a generated domino
AuthoringComplete ==
    /\ user # NoUser
    /\ \E title \in Titles : title \notin {"", " "} /\ creatorState.title = title
    /\ Len(creatorState.regions) >= 1
    /\ \A i \in 1 .. Len(creatorState.regions) :
          Len(creatorState.regions[i].condition) = 1
    /\ Len(creatorState.dominoes) >= 1

\* the regions of a stored puzzle with an entry in its conditions_data
ConditionedRegions(row) ==
    {row.conditions_data[i].region : i \in 1 .. Len(row.conditions_data)}

\* C22: the creator issues createPuzzle only when the authoring is complete,
\* and every published puzzle has a condition in conditions_data for each
\* region of its board_data.
C22_PublishOnlyCompleteAuthoring ==
    /\ [][ (\E call \in rpcCalls' \ rpcCalls : call.op = "createPuzzle")
              => AuthoringComplete ]_vars
    /\ [](\A row \in puzzlesTable :
              \A id \in DOMAIN row.board_data : id \in ConditionedRegions(row))

\* C22 witness: a puzzle with a region of two cells and its condition has
\* been published by user 1, and the form has been reset.
C22_Witness ==
    /\ creatorState.publishResult = "success"
    /\ creatorState.regions = <<>>
    /\ \E row \in puzzlesTable :
          /\ row.creator_id = 1
          /\ row.title = "My puzzle"
          /\ DOMAIN row.board_data = {"blue"}
          /\ Len(row.board_data["blue"]) = 2
          /\ ConditionedRegions(row) = {"blue"}

\* the step is a call of handleCellClick with the paint tool
PaintStep == clicks' = clicks + 1 /\ creatorState.selectedTool = "paint"

\* the condition the regions hold for the region id: <<>> or <<condition>>
ConditionOf(regions, regionId) ==
    regions[CHOOSE i \in 1 .. Len(regions) : regions[i].id = regionId].condition

\* C29: painting a cell never removes or changes the condition of a region
\* that still contains a cell after the paint.
C29_PaintKeepsConditions ==
    [][ PaintStep =>
          LET ids(regions) == {regions[i].id : i \in 1 .. Len(regions)}
          IN  \A id \in ids(creatorState.regions) \cap ids(creatorState'.regions) :
                  ConditionOf(creatorState'.regions, id)
                      = ConditionOf(creatorState.regions, id) ]_vars

\* the cells of a region list that are no cells of a grid of the size
CellsOutside(cellLists, width, height) ==
    {c \in UNION {{cells[k] : k \in 1 .. Len(cells)} : cells \in cellLists} :
        c < 0 \/ c >= width * height}

\* C30: after any sequence of paint, set-condition and grid-resize
\* operations every cell of every region is a cell of the current grid, and
\* so is every region cell of the puzzle a publication would send.
C30_RegionCellsInsideGrid ==
    /\ CellsOutside({creatorState.regions[i].cells : i \in 1 .. Len(creatorState.regions)},
                    creatorState.gridWidth, creatorState.gridHeight) = {}
    /\ LET input == puzzleInput(creatorState)
       IN  CellsOutside({input.board_data[id] : id \in DOMAIN input.board_data},
                        input.grid_width, input.grid_height) = {}

\* C30 witness: after a paint of the last cell of the 4x4 grid and a resize
\* to 3 wide, the last cell of the 3x4 grid is painted and its region has a
\* condition.
C30_Witness ==
    /\ creatorState.gridWidth = 3 /\ creatorState.gridHeight = 4
    /\ clicks = 3
    /\ \E i \in 1 .. Len(creatorState.regions) :
          /\ creatorState.regions[i].cells = <<11>>
          /\ creatorState.regions[i].condition # <<>>

====
